---- MODULE Spec2Model ----
(***************************************************************************)
(* Model of backend/src/utils/security.py: the rate limiter of             *)
(* SecurityService (check_rate_limit), the SecretManager (encrypt,         *)
(* decrypt, lazy key rotation), PasswordPolicy.validate_password and       *)
(* SecurityService.constant_time_compare; and of                           *)
(* backend/src/services/ai.py: AIService.enrich_node.                      *)
(*                                                                         *)
(* Time is a discrete clock `now`; datetime.now(timezone.utc) reads it.    *)
(* Durations (the rate-limit window, the rotation interval) are counted in *)
(* ticks of that clock.                                                    *)
(*                                                                         *)
(* Python objects that are shared by reference are kept in a heap: the     *)
(* inner dicts {"count", "timestamp"} of _failed_attempts live in          *)
(* `entries`, and a map (the outer dict) is a function from keys to the    *)
(* ids of those inner dicts.  The dict comprehension of the pruning step   *)
(* copies references, so a pruned map shares its inner dicts with the map  *)
(* it was built from.                                                      *)
(***************************************************************************)
EXTENDS Integers, Sequences, FiniteSets, TLC

(***************************************************************************)
(* Bounds of the model.                                                    *)
(***************************************************************************)
\* the clock runs from 0 to MaxTime
MaxTime == 3
\* the configured max_requests ranges over MinMaxRequests..MaxMaxRequests
MaxMaxRequests == 2

\* the clock of SpecRLLong runs from 0 to LongMaxTime, two windows
LongMaxTime == 4

\* the clock of the concurrent specifications runs from 0 to ConcMaxTime
ConcMaxTime == 2

\* each concurrent caller makes at most MaxCalls calls
MaxCalls == 2

\* encrypt returns at most MaxTokens ciphertexts
MaxTokens == 2

\* smallest configured max_requests (RateLimit.max_requests is an unvalidated int)
MinMaxRequests == 0 - 1

\* the configured KeyRotation.interval ranges over 1..MaxInterval
MaxInterval == 3

\* each coroutine calls enrich_node at most MaxEnrich times
MaxEnrich == 2

\* a password has at most MaxPwLen characters
MaxPwLen == 4

\* a string given to constant_time_compare has at most MaxCompareLen characters
MaxCompareLen == 2

(***************************************************************************)
(* Configuration (RateLimit).                                              *)
(***************************************************************************)
\* RateLimit.window, in clock ticks (the default is 15 minutes)
window == 2

\* RateLimit.skip_paths default
skip_paths == {"/health", "/metrics"}

\* The positional argument pairs <<first, second>> with which
\* check_rate_limit(path, ip) is called.  The last pair passes the caller
\* address first and the path second.
CallArgs ==
  { <<"/api", "10.0.0.1">>,
    <<"/api", "10.0.0.2">>,
    <<"/health", "10.0.0.1">>,
    <<"10.0.0.1", "/health">> }

\* a faulty variant of Exempt: /health is not exempt
ExemptMetricsOnly(path) == path = "/metrics"

\* line 141: path in self.config.rate_limit.skip_paths
Exempt(path) == path \in skip_paths

\* line 144: key = f"{ip}:{path}"
KeyOf(path, ip) == ip \o ":" \o path

\* Argument pairs <<path, ip>> that hold colons: two different pairs whose
\* addresses and paths join to the same string.
ColonCallArgs ==
  { <<"/a:/b", "10.0.0.1">>,
    <<"/b", "10.0.0.1:/a">> }

\* the argument pairs of the calls made over two windows
LongCallArgs == { a \in CallArgs : a[1] = "/api" }

\* the argument pairs of the calls that are counted
Counted == { a \in CallArgs \cup ColonCallArgs : ~Exempt(a[1]) }

\* every key a call can store
Keys == { KeyOf(a[1], a[2]) : a \in Counted }

\* the concurrent callers
Threads == {1, 2}

\* the coroutines that call enrich_node
Tasks == {1, 2}

(***************************************************************************)
(* Configuration (KeyRotation, PasswordPolicy, SecurityConfig).            *)
(***************************************************************************)
\* line 97: SecretManager._rotation_interval, in clock ticks (30 days);
\* KeyRotation.interval has the same default
rotation_interval == 2

\* lines 42-51: KeyRotation, the interval in clock ticks
KeyRotation == [interval : 1 .. MaxInterval]

\* lines 13-20: PasswordPolicy
PasswordPolicy ==
  [min_length : 0 .. MaxPwLen,
   require_numbers : BOOLEAN, require_symbols : BOOLEAN,
   require_uppercase : BOOLEAN, require_lowercase : BOOLEAN]

\* lines 68-87: SecurityConfig (rate_limit.max_requests is the variable
\* max_requests; the window and the skip paths are the definitions above)
SecurityConfig == [key_rotation : KeyRotation, password_policy : PasswordPolicy]

\* the configuration built from the field defaults, the minimum length
\* scaled to the passwords of the model
DefaultConfig ==
  [key_rotation |-> [interval |-> rotation_interval],
   password_policy |->
     [min_length |-> MaxPwLen,
      require_numbers |-> TRUE, require_symbols |-> TRUE,
      require_uppercase |-> TRUE, require_lowercase |-> TRUE]]

VARIABLES
  now,              \* the clock read by datetime.now(timezone.utc)
  config,           \* the SecurityConfig the service was built with
  max_requests,     \* config.rate_limit.max_requests, fixed at construction
  failed_attempts,  \* self._failed_attempts: key -> id of its inner dict
  entries,          \* heap of inner dicts: id -> [count, timestamp]
  last,             \* history: the last completed call
  hist,             \* history: per key, the current series of calls
  phist,            \* history: per argument pair, the current series of calls
  th,               \* the concurrent callers: position and local variables
  fernet,           \* SecretManager._fernet: the key it holds, or None
  key_created,      \* SecretManager._key_created: a time, or None
  keys_made,        \* history: number of keys generated so far
  issued,           \* history: the ciphertexts returned by encrypt
  enc,              \* the concurrent callers of encrypt
  torn,             \* history: a call ran between the two writes of _create_key
  chain_llm,        \* AIService.chain.llm: the model the chain runs
  ai                \* the enrich_node coroutines: position and local variables

\* the state of the rate limiter and of the SecretManager
rlstate == <<max_requests, failed_attempts, entries, hist, phist, th>>
smstate == <<fernet, key_created, keys_made, issued, enc, torn>>

\* the state of the AIService
aistate == <<chain_llm, ai>>

vars == <<now, last, config, rlstate, smstate, aistate>>

\* Python's None, kept apart from every time and every key number
None == 0 - 1

EmptyMap == [k \in {} |-> <<>>]

NoCall == [op |-> "none"]

\* what a call finds when its key has no entry
NoEntry == [count |-> 0, timestamp |-> None]

(***************************************************************************)
(* check_rate_limit, statement by statement.                               *)
(***************************************************************************)
\* a faulty variant of KeepEntry: an entry exactly one window old is kept
KeepEntryInclusive(t, v) == t - v.timestamp <= window

\* a faulty variant of KeepEntry: no entry is ever dropped
KeepEntryAlways(t, v) == TRUE

\* line 151: the entry is kept when  now - v["timestamp"] < window
KeepEntry(t, v) == t - v.timestamp < window

\* lines 148-152: the dict comprehension; the new map holds the same inner dicts
Pruned(map, heap, t) ==
  [k \in { j \in DOMAIN map : KeepEntry(t, heap[map[j]]) } |-> map[k]]

\* a faulty variant of NewEntry: the first request is not counted
NewEntryUncounted(t) == [count |-> 0, timestamp |-> t]

\* line 155: the inner dict of a first request
NewEntry(t) == [count |-> 1, timestamp |-> t]

\* a faulty variant of LimitReached: off by one
LimitReachedStrict(v) == v.count > max_requests

\* line 158: the request is denied when count >= max_requests
LimitReached(v) == v.count >= max_requests

\* a faulty variant of Refused: the denied request is counted
RefusedCounted(v) == [v EXCEPT !.count = v.count + 1]

\* lines 158-159: return False; the inner dict stays as it is
Refused(v) == v

\* line 161: count += 1
Incremented(v) == [v EXCEPT !.count = v.count + 1]

\* the id given to a new inner dict for key k: the key and a generation number
\* that tells it apart from the older dicts of that key that are still
\* referenced; the first generation not in use is taken
FreshId(k, used) ==
  <<k, CHOOSE g \in 0 .. Cardinality(Threads) :
         /\ <<k, g>> \notin used
         /\ \A h \in 0 .. (g - 1) : <<k, h>> \in used>>

\* the heap without the dicts nothing refers to any more
Collect(heap, live) == [e \in (DOMAIN heap) \cap live |-> heap[e]]

Range(f) == { f[x] : x \in DOMAIN f }

(***************************************************************************)
(* History of the calls, per key.  A series of calls for a key starts with *)
(* a call made when no earlier call for the key exists or when one window  *)
(* or more has passed since the first call of the previous series.         *)
(***************************************************************************)
SeenCap == MaxMaxRequests + 2

NoSeries == [first |-> 0 - 1, seen |-> 0, admitted |-> 0, denied |-> FALSE]

StartsSeries(h, t) == h.seen = 0 \/ t - h.first >= window

Min(a, b) == IF a < b THEN a ELSE b

\* the series of a key once a call for it has read the clock at t
Joined(h, t) ==
  IF StartsSeries(h, t)
  THEN [first |-> t, seen |-> 1, admitted |-> 0, denied |-> FALSE]
  ELSE [h EXCEPT !.seen = Min(h.seen + 1, SeenCap)]

\* the series of a key once a call of it has returned r
Returned(h, r) ==
  [h EXCEPT !.admitted = Min(h.admitted + (IF r THEN 1 ELSE 0), SeenCap),
            !.denied = ~r]

\* the series of a key after a whole call made at t that returned r
Recorded(h, t, r) == Returned(Joined(h, t), r)

\* a caller of encrypt that is not inside a call
EncIdle == [pc |-> "idle", n |-> 0, data |-> <<>>]

\* a coroutine that is not inside enrich_node
AIIdle == [pc |-> "idle", first |-> "none", n |-> 0]

\* a caller that is not inside a call
Idle == [pc |-> "idle", key |-> "", t |-> 0, snap |-> EmptyMap,
         e |-> <<>>, tmp |-> 0, n |-> 0]

\* caller x back outside a call; n counts the calls it has made
Done(x) == [Idle EXCEPT !.n = th[x].n]

(***************************************************************************)
(* SecurityService.check_rate_limit(path, ip) as one sequential call: the  *)
(* statements of the method run one after the other with no other call in  *)
(* between, at the clock value read at line 145.                           *)
(***************************************************************************)
CheckRateLimit(path, ip) ==
  IF Exempt(path)
  THEN \* lines 141-142
       /\ last' = [op |-> "check_rate_limit", first |-> path, second |-> ip,
                   at |-> now, result |-> TRUE, changed |-> FALSE,
                   expired |-> FALSE, wasDenied |-> FALSE,
                   pre |-> NoEntry, lostLive |-> FALSE]
       /\ UNCHANGED <<now, max_requests, failed_attempts, entries, hist, th, smstate, config, aistate, phist>>
  ELSE LET key == KeyOf(path, ip)
           t == now
           kept == Pruned(failed_attempts, entries, t)
           heap1 == Collect(entries, Range(kept))
           e == FreshId(key, DOMAIN heap1)
           h == hist[key]
           \* what the call finds, recorded for the properties
           had == key \in DOMAIN failed_attempts
           expired == had /\ t - entries[failed_attempts[key]].timestamp >= window
           finish(r, map, heap) ==
             /\ failed_attempts' = map
             /\ entries' = heap
             /\ hist' = [hist EXCEPT ![key] = Recorded(h, t, r)]
             /\ phist' = [phist EXCEPT ![<<path, ip>>] =
                                         Recorded(@, t, r)]
             /\ last' = [op |-> "check_rate_limit", first |-> path, second |-> ip,
                         at |-> t, result |-> r,
                         changed |-> (map # failed_attempts \/ heap # entries),
                         expired |-> expired, wasDenied |-> h.denied,
                         pre |-> IF had THEN entries[failed_attempts[key]]
                                 ELSE NoEntry,
                         lostLive |->
                           \E k \in DOMAIN failed_attempts :
                             /\ t - entries[failed_attempts[k]].timestamp < window
                             /\ k \notin DOMAIN map]
       IN /\ UNCHANGED <<now, max_requests, th, smstate, config, aistate>>
          /\ IF key \notin DOMAIN kept
             THEN \* lines 154-156
                  finish(TRUE, (key :> e) @@ kept, (e :> NewEntry(t)) @@ heap1)
             ELSE IF LimitReached(heap1[kept[key]])
                  THEN \* lines 158-159
                       finish(FALSE, kept,
                              [heap1 EXCEPT ![kept[key]] = Refused(@)])
                  ELSE \* lines 161-162
                       finish(TRUE, kept,
                              [heap1 EXCEPT ![kept[key]] = Incremented(@)])

\* time passes
Tick ==
  /\ now < MaxTime
  /\ now' = now + 1
  /\ UNCHANGED <<max_requests, failed_attempts, entries, last, hist, th, smstate, config, aistate, phist>>

Init ==
  /\ now = 0
  /\ config \in SecurityConfig
  /\ max_requests \in MinMaxRequests .. MaxMaxRequests
  /\ failed_attempts = EmptyMap
  /\ entries = EmptyMap
  /\ last = NoCall
  /\ hist = [k \in Keys |-> NoSeries]
  /\ phist = [a \in Counted |-> NoSeries]
  /\ th = [x \in Threads |-> Idle]
  /\ fernet = None
  /\ key_created = None
  /\ keys_made = 0
  /\ issued = {}
  /\ enc = [x \in Threads |-> EncIdle]
  /\ torn = FALSE
  /\ chain_llm = "openai"
  /\ ai = [x \in Tasks |-> AIIdle]

Call == \E a \in CallArgs : CheckRateLimit(a[1], a[2])

RLNext == Tick \/ Call

\* the rate limiter reads no field of the configuration but rate_limit
RLInit == Init /\ config = DefaultConfig

\* sequential calls of the rate limiter
SpecRL == RLInit /\ [][RLNext]_vars

\* time passes, up to two windows
LongTick ==
  /\ now < LongMaxTime
  /\ now' = now + 1
  /\ UNCHANGED <<last, rlstate, smstate, config, aistate>>

LongCall == \E a \in LongCallArgs : CheckRateLimit(a[1], a[2])

RLLongNext == LongTick \/ LongCall

\* sequential calls of the rate limiter over two windows
SpecRLLong == RLInit /\ [][RLLongNext]_vars

ColonCall == \E a \in ColonCallArgs : CheckRateLimit(a[1], a[2])

RLColonNext == Tick \/ ColonCall

\* sequential calls of the rate limiter with arguments that hold colons
SpecRLColon == RLInit /\ [][RLColonNext]_vars

(***************************************************************************)
(* check_rate_limit called by concurrent threads.  The method takes no     *)
(* lock, so the threads interleave between its statements.  The steps are  *)
(* the statements; the two statements that read shared state and write it  *)
(* back are split at that point: the pruning (the comprehension reads      *)
(* self._failed_attempts, the assignment stores the new dict) and          *)
(* count += 1 (load of the inner dict and its count, store of count + 1).  *)
(* Statements that touch only locals and the immutable config (lines 141   *)
(* and 144) are taken together with the clock read of line 145.            *)
(***************************************************************************)
\* the inner dicts some map or some thread still refers to
Live(map, threads) ==
  Range(map)
    \cup UNION { Range(threads[x].snap) : x \in Threads }
    \cup { threads[x].e : x \in { y \in Threads : threads[y].pc = "write" } }

\* the call of thread x returns r
Return(x, r) ==
  LET k == th[x].key
  IN  hist' = IF th[x].t >= hist[k].first
              THEN [hist EXCEPT ![k] = Returned(@, r)]
              ELSE hist

\* the argument pairs of the concurrent callers
ConcCallArgs ==
  { <<"/api", "10.0.0.1">>,
    <<"/api", "10.0.0.2">>,
    <<"/health", "10.0.0.1">> }

\* time passes, up to ConcMaxTime
ConcTick ==
  /\ now < ConcMaxTime
  /\ now' = now + 1
  /\ UNCHANGED <<max_requests, failed_attempts, entries, last, hist, th, smstate, config, aistate, phist>>

ConcInit ==
  /\ RLInit
  /\ max_requests >= 1

\* lines 141-145: the exemption test, the key and the clock read
Begin(x, path, ip) ==
  /\ th[x].pc = "idle"
  /\ th[x].n < MaxCalls
  /\ IF Exempt(path)
     THEN /\ th' = [th EXCEPT ![x].n = @ + 1]
          /\ UNCHANGED hist
     ELSE /\ th' = [th EXCEPT ![x] = [Idle EXCEPT !.pc = "prune",
                                                  !.key = KeyOf(path, ip),
                                                  !.t = now,
                                                  !.n = th[x].n + 1]]
          /\ hist' = [hist EXCEPT ![KeyOf(path, ip)] = Joined(@, now)]
  /\ UNCHANGED <<now, max_requests, failed_attempts, entries, last, smstate, config, aistate, phist>>

\* lines 149-151: the comprehension builds the new dict
PruneRead(x) ==
  /\ th[x].pc = "prune"
  /\ th' = [th EXCEPT ![x].pc = "store",
                      ![x].snap = Pruned(failed_attempts, entries, th[x].t)]
  /\ UNCHANGED <<now, max_requests, failed_attempts, entries, last, hist, smstate, config, aistate, phist>>

\* line 148: self._failed_attempts = <the new dict>
PruneStore(x) ==
  /\ th[x].pc = "store"
  /\ failed_attempts' = th[x].snap
  /\ th' = [th EXCEPT ![x].pc = "test", ![x].snap = EmptyMap]
  /\ entries' = Collect(entries, Live(failed_attempts', th'))
  /\ UNCHANGED <<now, max_requests, last, hist, smstate, config, aistate, phist>>

\* line 154: if key not in self._failed_attempts
Test(x) ==
  /\ th[x].pc = "test"
  /\ th' = [th EXCEPT ![x].pc = IF th[x].key \notin DOMAIN failed_attempts
                                THEN "insert" ELSE "limit"]
  /\ UNCHANGED <<now, max_requests, failed_attempts, entries, last, hist, smstate, config, aistate, phist>>

\* lines 155-156: store the inner dict of a first request, return True
Insert(x) ==
  /\ th[x].pc = "insert"
  /\ LET k == th[x].key
         e == FreshId(k, DOMAIN entries)
     IN  /\ failed_attempts' = (k :> e) @@ failed_attempts
         /\ th' = [th EXCEPT ![x] = Done(x)]
         /\ entries' = Collect((e :> NewEntry(th[x].t)) @@ entries,
                               Live(failed_attempts', th'))
  /\ Return(x, TRUE)
  /\ UNCHANGED <<now, max_requests, last, smstate, config, aistate, phist>>

\* lines 158-159: self._failed_attempts[key]["count"] >= max_requests
Limit(x) ==
  /\ th[x].pc = "limit"
  /\ LET k == th[x].key
     IN  IF k \notin DOMAIN failed_attempts
         THEN \* KeyError
              /\ th' = [th EXCEPT ![x].pc = "raised"]
              /\ UNCHANGED hist
         ELSE IF LimitReached(entries[failed_attempts[k]])
              THEN /\ th' = [th EXCEPT ![x] = Done(x)]
                   /\ Return(x, FALSE)
              ELSE /\ th' = [th EXCEPT ![x].pc = "incr"]
                   /\ UNCHANGED hist
  /\ UNCHANGED <<now, max_requests, failed_attempts, entries, last, smstate, config, aistate, phist>>

\* line 161, first half: load self._failed_attempts[key] and its count
IncrRead(x) ==
  /\ th[x].pc = "incr"
  /\ LET k == th[x].key
     IN  IF k \notin DOMAIN failed_attempts
         THEN \* KeyError
              th' = [th EXCEPT ![x].pc = "raised"]
         ELSE th' = [th EXCEPT ![x].pc = "write",
                               ![x].e = failed_attempts[k],
                               ![x].tmp = entries[failed_attempts[k]].count]
  /\ UNCHANGED <<now, max_requests, failed_attempts, entries, last, hist, smstate, config, aistate, phist>>

\* line 161, second half, and line 162: store count + 1, return True
IncrWrite(x) ==
  /\ th[x].pc = "write"
  /\ th' = [th EXCEPT ![x] = Done(x)]
  /\ entries' = Collect([entries EXCEPT ![th[x].e].count = th[x].tmp + 1],
                        Live(failed_attempts, th'))
  /\ Return(x, TRUE)
  /\ UNCHANGED <<now, max_requests, failed_attempts, last, smstate, config, aistate, phist>>

BeginCall == \E x \in Threads : \E a \in ConcCallArgs : Begin(x, a[1], a[2])

DoPruneRead == \E x \in Threads : PruneRead(x)

DoPruneStore == \E x \in Threads : PruneStore(x)

DoTest == \E x \in Threads : Test(x)

DoInsert == \E x \in Threads : Insert(x)

DoLimit == \E x \in Threads : Limit(x)

DoIncrRead == \E x \in Threads : IncrRead(x)

DoIncrWrite == \E x \in Threads : IncrWrite(x)

RLConcNext ==
  \/ ConcTick
  \/ BeginCall
  \/ DoPruneRead
  \/ DoPruneStore
  \/ DoTest
  \/ DoInsert
  \/ DoLimit
  \/ DoIncrRead
  \/ DoIncrWrite

\* concurrent calls of the rate limiter
SpecRLConc == ConcInit /\ [][RLConcNext]_vars

(***************************************************************************)
(* SecretManager.  A key made by Fernet.generate_key() is a fresh random   *)
(* value: key number n is the n-th key generated.  A Fernet token carries  *)
(* a random IV, the time it was made, the data (AES-encrypted under the    *)
(* key) and an HMAC over all of it under the key; decryption succeeds only *)
(* for a token whose HMAC verifies under the key that decrypts.  Strings   *)
(* are sequences of code points, bytes are sequences of 0..255.            *)
(***************************************************************************)
Ok(v) == [ok |-> TRUE, err |-> "", val |-> v]

Err(name) == [ok |-> FALSE, err |-> name, val |-> <<>>]

\* the strings given to encrypt: empty, ASCII with a 2-byte character,
\* a 3-byte character, and a lone surrogate (which UTF-8 cannot encode)
Plaintexts == { <<>>, <<65, 233>>, <<8364>>, <<55296>> }

IsSurrogate(cp) == cp >= 55296 /\ cp <= 57343

\* the UTF-8 bytes of one code point below 65536
Utf8Bytes(cp) ==
  IF cp < 128 THEN <<cp>>
  ELSE IF cp < 2048 THEN <<192 + (cp \div 64), 128 + (cp % 64)>>
  ELSE <<224 + (cp \div 4096), 128 + ((cp \div 64) % 64), 128 + (cp % 64)>>

RECURSIVE Utf8Concat(_)
Utf8Concat(s) ==
  IF s = <<>> THEN <<>> ELSE Utf8Bytes(Head(s)) \o Utf8Concat(Tail(s))

\* str.encode(): UTF-8, strict
Utf8Encode(s) ==
  IF \E i \in 1 .. Len(s) : IsSurrogate(s[i])
  THEN Err("UnicodeEncodeError")
  ELSE Ok(Utf8Concat(s))

IsCont(b) == b >= 128 /\ b < 192

\* a faulty variant of Utf8Decode2: the continuation byte is not masked
Utf8Decode2Unmasked(b1, b2) == (b1 - 192) * 64 + b2

\* the code point of a 2-byte sequence
Utf8Decode2(b1, b2) == (b1 - 192) * 64 + (b2 - 128)

\* the code point of a 3-byte sequence
Utf8Decode3(b1, b2, b3) == (b1 - 224) * 4096 + (b2 - 128) * 64 + (b3 - 128)

\* bytes.decode(): UTF-8, strict; the code points, or <<-1>> where the bytes
\* are not valid UTF-8
RECURSIVE Utf8Points(_)
Utf8Points(b) ==
  IF b = <<>> THEN <<>>
  ELSE IF b[1] < 128 THEN <<b[1]>> \o Utf8Points(Tail(b))
  ELSE IF /\ b[1] >= 194 /\ b[1] < 224
          /\ Len(b) >= 2 /\ IsCont(b[2])
       THEN <<Utf8Decode2(b[1], b[2])>> \o Utf8Points(SubSeq(b, 3, Len(b)))
  ELSE IF /\ b[1] >= 224 /\ b[1] < 240
          /\ Len(b) >= 3 /\ IsCont(b[2]) /\ IsCont(b[3])
          /\ Utf8Decode3(b[1], b[2], b[3]) >= 2048
          /\ ~IsSurrogate(Utf8Decode3(b[1], b[2], b[3]))
       THEN <<Utf8Decode3(b[1], b[2], b[3])>> \o Utf8Points(SubSeq(b, 4, Len(b)))
  ELSE <<0 - 1>>

Utf8Decode(b) ==
  LET s == Utf8Points(b)
  IN  IF \E i \in 1 .. Len(s) : s[i] < 0
      THEN Err("UnicodeDecodeError")
      ELSE Ok(s)

\* the HMAC of a token under a key
Mac(key, iv, t, data) == <<key, iv, t, data>>

\* Fernet(key).encrypt(data)
FernetEncrypt(key, data, t, iv) ==
  [iv |-> iv, time |-> t, data |-> data, mac |-> Mac(key, iv, t, data)]

\* a faulty variant of FernetDecrypt: the HMAC is not verified
FernetDecryptUnverified(key, tok) == Ok(tok.data)

\* Fernet(key).decrypt(token), without ttl
FernetDecrypt(key, tok) ==
  IF tok.mac = Mac(key, tok.iv, tok.time, tok.data)
  THEN Ok(tok.data)
  ELSE Err("InvalidToken")

\* a string that is no Fernet token
Garbage == [iv |-> 0, time |-> 0, data |-> <<>>, mac |-> <<>>]

\* a token whose data lost its last byte
Truncated(tok) ==
  [tok EXCEPT !.data = SubSeq(tok.data, 1, Len(tok.data) - 1)]

\* the strings given to decrypt
CipherInputs ==
  { i.tok : i \in issued } \cup { Truncated(i.tok) : i \in issued } \cup {Garbage}

\* a faulty variant of ShouldRotate: the age is computed the wrong way round
ShouldRotateReversed(created, t) ==
  IF created = None THEN TRUE ELSE (created - t) > rotation_interval

\* a faulty variant of ShouldRotate: a key exactly one interval old is replaced
ShouldRotateInclusive(created, t) ==
  IF created = None THEN TRUE ELSE (t - created) >= rotation_interval

\* lines 105-111: _should_rotate
ShouldRotate(created, t) ==
  IF created = None THEN TRUE ELSE (t - created) > rotation_interval

\* lines 113-117: encrypt as one sequential call
Encrypt(data) ==
  /\ Cardinality(issued) < MaxTokens
  /\ LET rot == ShouldRotate(key_created, now)
         \* lines 99-103: _create_key
         made == IF rot THEN keys_made + 1 ELSE keys_made
         key == IF rot THEN keys_made + 1 ELSE fernet
         created == IF rot THEN now ELSE key_created
         bytes == Utf8Encode(data)
         tok == FernetEncrypt(key, bytes.val, now, Cardinality(issued) + 1)
     IN  /\ fernet' = key
         /\ key_created' = created
         /\ keys_made' = made
         /\ issued' = IF bytes.ok
                      THEN issued \cup
                             {[tok |-> tok, pt |-> data, key |-> key,
                               gen |-> made, kc |-> created]}
                      ELSE issued
         /\ last' = [op |-> "encrypt", at |-> now, data |-> data,
                     rotated |-> rot,
                     preKey |-> fernet, preCreated |-> key_created,
                     result |-> IF bytes.ok THEN Ok(tok) ELSE bytes]
  /\ UNCHANGED <<now, enc, torn, rlstate, config, aistate>>

\* a faulty variant of Decrypt: a decrypt call replaces a key that is due
DecryptRotating(c) ==
  /\ LET rot == fernet # None /\ ShouldRotate(key_created, now)
         key == IF rot THEN keys_made + 1 ELSE fernet
         plain == FernetDecrypt(key, c)
         r == IF fernet = None
              THEN Err("ValueError")
              ELSE IF plain.ok THEN Utf8Decode(plain.val) ELSE plain
     IN  /\ fernet' = key
         /\ key_created' = IF rot THEN now ELSE key_created
         /\ keys_made' = IF rot THEN keys_made + 1 ELSE keys_made
         /\ last' = [op |-> "decrypt", at |-> now, input |-> c,
                     hadKey |-> fernet # None,
                     preKey |-> fernet, preCreated |-> key_created,
                     preMade |-> keys_made,
                     result |-> r]
  /\ UNCHANGED <<now, issued, enc, torn, rlstate, config, aistate>>

\* lines 119-123: decrypt
Decrypt(c) ==
  /\ LET plain == FernetDecrypt(fernet, c)
         r == IF fernet = None
              THEN \* lines 121-122
                   Err("ValueError")
              ELSE IF plain.ok THEN Utf8Decode(plain.val) ELSE plain
     IN  last' = [op |-> "decrypt", at |-> now, input |-> c,
                  hadKey |-> fernet # None,
                  preKey |-> fernet, preCreated |-> key_created,
                  preMade |-> keys_made,
                  result |-> r]
  /\ UNCHANGED <<now, smstate, rlstate, config, aistate>>

\* time passes
SMTick ==
  /\ now < MaxTime
  /\ now' = now + 1
  /\ UNCHANGED <<last, smstate, rlstate, config, aistate>>

DoEncrypt == \E x \in Plaintexts : Encrypt(x)

DoDecrypt == \E c \in CipherInputs : Decrypt(c)

SMNext == SMTick \/ DoEncrypt \/ DoDecrypt

SMInit ==
  /\ Init
  /\ max_requests = MaxMaxRequests
  /\ config.password_policy = DefaultConfig.password_policy

\* sequential calls of the SecretManager
SpecSM == SMInit /\ [][SMNext]_vars

(***************************************************************************)
(* encrypt called by concurrent threads.  The SecretManager takes no lock. *)
(* The steps are: the rotation check of line 115 (_should_rotate), the     *)
(* first write of _create_key (lines 101-102, self._fernet), its second    *)
(* write (line 103, self._key_created), and line 117, which loads          *)
(* self._fernet and encrypts.                                              *)
(***************************************************************************)
\* the plaintexts of the concurrent callers
ConcPlaintexts == { <<65>> }

\* another caller stands between the two writes of _create_key
MidCreate(x) == \E y \in Threads \ {x} : enc[y].pc = "stamp"

EncBegin(x, data) ==
  /\ enc[x].pc = "idle"
  /\ enc[x].n < MaxCalls
  /\ Cardinality(issued) + Cardinality({ y \in Threads : enc[y].pc # "idle" })
       < MaxTokens
  /\ enc' = [enc EXCEPT ![x] = [pc |-> "check", n |-> enc[x].n + 1,
                                data |-> data]]
  /\ UNCHANGED <<now, last, fernet, key_created, keys_made, issued, torn,
                 rlstate, config, aistate>>

\* line 115: if self._should_rotate()
EncCheck(x) ==
  /\ enc[x].pc = "check"
  /\ enc' = [enc EXCEPT ![x].pc = IF ShouldRotate(key_created, now)
                                  THEN "create" ELSE "use"]
  /\ torn' = (torn \/ MidCreate(x))
  /\ UNCHANGED <<now, last, fernet, key_created, keys_made, issued, rlstate, config, aistate>>

\* lines 101-102: key = Fernet.generate_key(); self._fernet = Fernet(key)
EncCreate(x) ==
  /\ enc[x].pc = "create"
  /\ keys_made' = keys_made + 1
  /\ fernet' = keys_made + 1
  /\ enc' = [enc EXCEPT ![x].pc = "stamp"]
  /\ UNCHANGED <<now, last, key_created, issued, torn, rlstate, config, aistate>>

\* line 103: self._key_created = datetime.now(timezone.utc)
EncStamp(x) ==
  /\ enc[x].pc = "stamp"
  /\ key_created' = now
  /\ enc' = [enc EXCEPT ![x].pc = "use"]
  /\ UNCHANGED <<now, last, fernet, keys_made, issued, torn, rlstate, config, aistate>>

\* line 117: return self._fernet.encrypt(data.encode()).decode()
EncUse(x) ==
  /\ enc[x].pc = "use"
  /\ LET bytes == Utf8Encode(enc[x].data)
         tok == FernetEncrypt(fernet, bytes.val, now, Cardinality(issued) + 1)
     IN  issued' = IF bytes.ok
                   THEN issued \cup
                          {[tok |-> tok, pt |-> enc[x].data, key |-> fernet,
                            gen |-> keys_made, kc |-> key_created]}
                   ELSE issued
  /\ torn' = (torn \/ MidCreate(x))
  /\ enc' = [enc EXCEPT ![x] = [EncIdle EXCEPT !.n = enc[x].n]]
  /\ UNCHANGED <<now, last, fernet, key_created, keys_made, rlstate, config, aistate>>

DoEncBegin == \E x \in Threads : \E d \in ConcPlaintexts : EncBegin(x, d)

DoEncCheck == \E x \in Threads : EncCheck(x)

DoEncCreate == \E x \in Threads : EncCreate(x)

DoEncStamp == \E x \in Threads : EncStamp(x)

DoEncUse == \E x \in Threads : EncUse(x)

SMConcNext ==
  \/ SMTick
  \/ DoEncBegin
  \/ DoEncCheck
  \/ DoEncCreate
  \/ DoEncStamp
  \/ DoEncUse
  \/ DoDecrypt

\* concurrent calls of encrypt
SpecSMConc == SMInit /\ [][SMConcNext]_vars

(***************************************************************************)
(* PasswordPolicy.validate_password.  A password is a sequence of code     *)
(* points; the str predicates of Python are given on the code points the   *)
(* passwords are built from.                                               *)
(***************************************************************************)
\* the characters of the passwords: "!", "1", "A", "a" and the CJK letter
\* U+4E2D, which is alphanumeric and has no case
PwChars == {33, 49, 65, 97, 20013}

\* the passwords given to validate_password
Passwords == UNION { [1 .. n -> PwChars] : n \in 0 .. MaxPwLen }

\* c.isdigit()
IsDigit(c) == c \in 48 .. 57

\* c.isupper()
IsUpper(c) == c \in 65 .. 90

\* c.islower()
IsLower(c) == c \in 97 .. 122

\* c.isalnum()
IsAlnum(c) == IsDigit(c) \/ IsUpper(c) \/ IsLower(c) \/ c \in 19968 .. 40959

\* the tuple (False, message)
Invalid(message) == [valid |-> FALSE, message |-> message]

\* the tuple (True, None); the empty message stands for None
Valid == [valid |-> TRUE, message |-> ""]

\* line 25: f"Password must be at least {self.min_length} characters"
LengthMessage(min_length) ==
  "Password must be at least " \o ToString(min_length) \o " characters"

\* a faulty variant of ValidatePassword: a symbol is required whatever the flag
ValidatePasswordSymbolAlways(policy, password) ==
  LET any(P(_)) == \E i \in 1 .. Len(password) : P(password[i])
      symbol(c) == ~IsAlnum(c)
  IN  IF Len(password) < policy.min_length
      THEN Invalid(LengthMessage(policy.min_length))
      ELSE IF policy.require_numbers /\ ~any(IsDigit)
      THEN Invalid("Password must contain at least one number")
      ELSE IF ~any(symbol)
      THEN Invalid("Password must contain at least one symbol")
      ELSE IF policy.require_uppercase /\ ~any(IsUpper)
      THEN Invalid("Password must contain at least one uppercase letter")
      ELSE IF policy.require_lowercase /\ ~any(IsLower)
      THEN Invalid("Password must contain at least one lowercase letter")
      ELSE Valid

\* a faulty variant of ValidatePassword: the digit rule is tested before the length
ValidatePasswordDigitFirst(policy, password) ==
  LET any(P(_)) == \E i \in 1 .. Len(password) : P(password[i])
      symbol(c) == ~IsAlnum(c)
  IN  IF policy.require_numbers /\ ~any(IsDigit)
      THEN Invalid("Password must contain at least one number")
      ELSE IF Len(password) < policy.min_length
      THEN Invalid(LengthMessage(policy.min_length))
      ELSE IF policy.require_symbols /\ ~any(symbol)
      THEN Invalid("Password must contain at least one symbol")
      ELSE IF policy.require_uppercase /\ ~any(IsUpper)
      THEN Invalid("Password must contain at least one uppercase letter")
      ELSE IF policy.require_lowercase /\ ~any(IsLower)
      THEN Invalid("Password must contain at least one lowercase letter")
      ELSE Valid

\* lines 22-39: PasswordPolicy.validate_password
ValidatePassword(policy, password) ==
  LET any(P(_)) == \E i \in 1 .. Len(password) : P(password[i])
      symbol(c) == ~IsAlnum(c)
  IN  IF Len(password) < policy.min_length
      THEN Invalid(LengthMessage(policy.min_length))
      ELSE IF policy.require_numbers /\ ~any(IsDigit)
      THEN Invalid("Password must contain at least one number")
      ELSE IF policy.require_symbols /\ ~any(symbol)
      THEN Invalid("Password must contain at least one symbol")
      ELSE IF policy.require_uppercase /\ ~any(IsUpper)
      THEN Invalid("Password must contain at least one uppercase letter")
      ELSE IF policy.require_lowercase /\ ~any(IsLower)
      THEN Invalid("Password must contain at least one lowercase letter")
      ELSE Valid

\* lines 135-137: SecurityService.validate_password.  The method reads the
\* policy and the password and writes nothing, so a call does not depend on
\* the calls before it: a behaviour makes one call.
ServiceValidatePassword(password) ==
  /\ last = NoCall
  /\ last' = [op |-> "validate_password", password |-> password,
              result |-> ValidatePassword(config.password_policy, password)]
  /\ UNCHANGED <<now, config, aistate, rlstate, smstate>>

PWNext == \E password \in Passwords : ServiceValidatePassword(password)

\* a service built with any password policy
PWInit ==
  /\ Init
  /\ max_requests = MaxMaxRequests
  /\ config.key_rotation = DefaultConfig.key_rotation

\* calls of validate_password
SpecPW == PWInit /\ [][PWNext]_vars

(***************************************************************************)
(* SecurityService.constant_time_compare.  Both strings are encoded and    *)
(* hashed, and the two digests are compared by hmac.compare_digest, which  *)
(* visits every byte of its second argument whatever it finds.  The digest *)
(* stands for SHA-256: it has a fixed size and maps different byte strings *)
(* of the model to different digests.                                      *)
(***************************************************************************)
\* hashlib.sha256().digest_size
DigestSize == 32

\* the characters of the compared strings: "A", U+00E9 (two bytes in UTF-8)
\* and the lone surrogate U+D800
CompareChars == {65, 233, 55296}

\* the strings given to constant_time_compare
CompareInputs == UNION { [1 .. n -> CompareChars] : n \in 0 .. MaxCompareLen }

\* hashlib.sha256(b).digest(): DigestSize bytes, collision-free on the byte
\* strings of the model (the length, the bytes, then zeros)
Sha256(b) ==
  [i \in 1 .. DigestSize |->
     IF i = 1 THEN Len(b) ELSE IF i - 1 <= Len(b) THEN b[i - 1] ELSE 0]

\* the loop of hmac.compare_digest: one step for each byte of `right`, the
\* differences found so far kept in acc.diff
RECURSIVE Tscmp(_, _, _, _)
Tscmp(left, right, i, acc) ==
  IF i > Len(right)
  THEN acc
  ELSE Tscmp(left, right, i + 1,
             [diff |-> acc.diff \/ left[i] # right[i],
              steps |-> acc.steps + 1])

\* the position of the first byte in which x and y differ, 0 when x = y
FirstDiff(x, y) ==
  IF x = y THEN 0
  ELSE CHOOSE i \in 1 .. Len(x) + 1 :
         /\ i > Len(x) \/ i > Len(y) \/ x[i] # y[i]
         /\ \A j \in 1 .. i - 1 : j <= Len(y) /\ x[j] = y[j]

\* a faulty variant of CompareDigest: the comparison of a == b, which stops
\* at the first byte that differs
CompareDigestEarlyExit(a, b) ==
  [equal |-> a = b,
   steps |-> IF a = b THEN Len(b) ELSE FirstDiff(a, b)]

\* hmac.compare_digest(a, b): with operands of different lengths b is
\* compared with itself and the result is False
CompareDigest(a, b) ==
  LET left == IF Len(a) = Len(b) THEN a ELSE b
      acc == Tscmp(left, b, 1, [diff |-> Len(a) # Len(b), steps |-> 0])
  IN  [equal |-> ~acc.diff, steps |-> acc.steps]

\* a faulty variant of ConstantTimeCompare: the digest of val1 is compared
\* with itself
ConstantTimeCompareSelf(val1, val2) ==
  LET e1 == Utf8Encode(val1)
      e2 == Utf8Encode(val2)
  IN  IF ~e1.ok THEN [result |-> e1, steps |-> 0]
      ELSE IF ~e2.ok THEN [result |-> e2, steps |-> 0]
      ELSE LET c == CompareDigest(Sha256(e1.val), Sha256(e1.val))
           IN  [result |-> Ok(c.equal), steps |-> c.steps]

\* lines 168-173: constant_time_compare; steps counts the comparison steps
ConstantTimeCompare(val1, val2) ==
  LET e1 == Utf8Encode(val1)
      e2 == Utf8Encode(val2)
  IN  IF ~e1.ok THEN [result |-> e1, steps |-> 0]
      ELSE IF ~e2.ok THEN [result |-> e2, steps |-> 0]
      ELSE LET c == CompareDigest(Sha256(e1.val), Sha256(e2.val))
           IN  [result |-> Ok(c.equal), steps |-> c.steps]

\* what a later run is compared with: whether the run returned, its
\* comparison steps, the position of the first differing byte of the two
\* encodings and the difference of their lengths
RunSummary(val1, val2, r) ==
  IF r.result.ok
  THEN LET x == Utf8Encode(val1).val
           y == Utf8Encode(val2).val
       IN  [ok |-> TRUE, steps |-> r.steps, diffAt |-> FirstDiff(x, y),
            lenDiff |-> Len(x) - Len(y)]
  ELSE [ok |-> FALSE, steps |-> r.steps, diffAt |-> 0, lenDiff |-> 0]

\* no run yet
NoRun == [ok |-> FALSE, steps |-> 0, diffAt |-> 0, lenDiff |-> 0]

\* A call of constant_time_compare.  The method reads its arguments only; a
\* behaviour makes two calls, so that two runs can be compared.
CompareCall(val1, val2) ==
  /\ last.op = "none" \/ (last.op = "constant_time_compare" /\ last.run = 1)
  /\ LET r == ConstantTimeCompare(val1, val2)
     IN  last' = [op |-> "constant_time_compare",
                  run |-> IF last.op = "none" THEN 1 ELSE 2,
                  val1 |-> val1, val2 |-> val2,
                  result |-> r.result,
                  this |-> RunSummary(val1, val2, r),
                  prev |-> IF last.op = "none" THEN NoRun ELSE last.this]
  /\ UNCHANGED <<now, config, aistate, rlstate, smstate>>

CompareNext == \E val1, val2 \in CompareInputs : CompareCall(val1, val2)

\* constant_time_compare reads no field of the service
CompareInit == Init /\ max_requests = MaxMaxRequests /\ config = DefaultConfig

\* calls of constant_time_compare
SpecCompare == CompareInit /\ [][CompareNext]_vars

(***************************************************************************)
(* AIService.enrich_node (backend/src/services/ai.py).  The service holds  *)
(* one LLMChain, built with llm = self.openai.  enrich_node is a           *)
(* coroutine: it can be suspended at each `await self.chain.arun(...)`,    *)
(* where other coroutines run.  A run of the chain reads chain.llm when it *)
(* starts; whether it succeeds or raises is decided by the model provider. *)
(***************************************************************************)
\* line 61: self.chain.arun(...) starts, with the model the chain holds
EnrichBegin(x) ==
  /\ ai[x].pc = "idle"
  /\ ai[x].n < MaxEnrich
  /\ ai' = [ai EXCEPT ![x] = [pc |-> "first", first |-> chain_llm,
                              n |-> ai[x].n + 1]]
  /\ UNCHANGED <<now, last, config, rlstate, smstate, chain_llm>>

\* lines 61-62: the first run returns a result
EnrichFirstOk(x) ==
  /\ ai[x].pc = "first"
  /\ last' = [op |-> "enrich_node", task |-> x, first |-> ai[x].first,
              second |-> "none", result |-> Ok(ai[x].first)]
  /\ ai' = [ai EXCEPT ![x] = [AIIdle EXCEPT !.n = ai[x].n]]
  /\ UNCHANGED <<now, config, rlstate, smstate, chain_llm>>

\* lines 63-67: the first run raises; the chain is given self.anthropic and
\* run again
EnrichFirstFail(x) ==
  /\ ai[x].pc = "first"
  /\ chain_llm' = "anthropic"
  /\ ai' = [ai EXCEPT ![x].pc = "second"]
  /\ UNCHANGED <<now, last, config, rlstate, smstate>>

\* lines 67-68: the second run returns a result
EnrichSecondOk(x) ==
  /\ ai[x].pc = "second"
  /\ last' = [op |-> "enrich_node", task |-> x, first |-> ai[x].first,
              second |-> "anthropic", result |-> Ok("anthropic")]
  /\ ai' = [ai EXCEPT ![x] = [AIIdle EXCEPT !.n = ai[x].n]]
  /\ UNCHANGED <<now, config, rlstate, smstate, chain_llm>>

\* lines 69-73: the second run raises too
EnrichSecondFail(x) ==
  /\ ai[x].pc = "second"
  /\ last' = [op |-> "enrich_node", task |-> x, first |-> ai[x].first,
              second |-> "anthropic", result |-> Err("Exception")]
  /\ ai' = [ai EXCEPT ![x] = [AIIdle EXCEPT !.n = ai[x].n]]
  /\ UNCHANGED <<now, config, rlstate, smstate, chain_llm>>

DoEnrichBegin == \E x \in Tasks : EnrichBegin(x)

DoEnrichFirstOk == \E x \in Tasks : EnrichFirstOk(x)

DoEnrichFirstFail == \E x \in Tasks : EnrichFirstFail(x)

DoEnrichSecondOk == \E x \in Tasks : EnrichSecondOk(x)

DoEnrichSecondFail == \E x \in Tasks : EnrichSecondFail(x)

AINext ==
  \/ DoEnrichBegin
  \/ DoEnrichFirstOk
  \/ DoEnrichFirstFail
  \/ DoEnrichSecondOk
  \/ DoEnrichSecondFail

\* enrich_node reads no field of the SecurityService
AIInit == Init /\ max_requests = MaxMaxRequests /\ config = DefaultConfig

\* calls of enrich_node
SpecAI == AIInit /\ [][AINext]_vars

(***************************************************************************)
(* Properties of the sequential rate limiter (SpecRL).                     *)
(***************************************************************************)
\* the last completed call was a check_rate_limit call on a non-exempt path
LastCounted == last.op = "check_rate_limit" /\ ~Exempt(last.first)

LastKey == KeyOf(last.first, last.second)

\* C1: with max_requests >= 1, in a series of calls for one key that all fall
\* less than one window after the first of them, the n-th call is admitted
\* exactly when n <= max_requests.
C1_AdmitsMaxThenDenies ==
  (LastCounted /\ max_requests >= 1) =>
     (last.result <=> hist[LastKey].seen <= max_requests)

\* C1 witness: a third call of a series is denied under max_requests = 2
C1_Witness ==
  /\ LastCounted
  /\ max_requests = 2
  /\ hist[LastKey].seen = 3
  /\ ~last.result

\* C3: a call for a key whose previous call was denied, made when
\* now - window_start >= window, is admitted and leaves the entry
\* {count: 1, timestamp: now}; and no call is denied one window or more after
\* the first request of its series.
C3_ExpiredWindowAdmits ==
  LastCounted =>
     /\ (last.wasDenied /\ last.expired) =>
           /\ last.result
           /\ LastKey \in DOMAIN failed_attempts
           /\ entries[failed_attempts[LastKey]] =
                 [count |-> 1, timestamp |-> last.at]
     /\ ~last.result =>
           /\ hist[LastKey].seen >= 2
           /\ last.at - hist[LastKey].first < window

\* C3 witness: a denied key is admitted again once its window has elapsed
C3_Witness ==
  /\ LastCounted
  /\ max_requests >= 1
  /\ last.wasDenied
  /\ last.expired
  /\ last.result

\* C4 as stated: a call whose SECOND argument is an exempt path (the caller
\* identity being the first argument) is admitted and changes no entry.
C4_ExemptPathSecond ==
  (last.op = "check_rate_limit" /\ last.second \in skip_paths) =>
     (last.result /\ ~last.changed)

\* C4 amended: a call whose FIRST argument is an exempt path (the signature
\* is check_rate_limit(path, ip)) is admitted and changes no entry, whatever
\* counts are stored.
C4_ExemptPathFirst ==
  (last.op = "check_rate_limit" /\ last.first \in skip_paths) =>
     (last.result /\ ~last.changed)

\* C4 witness: an exempt call is admitted although the caller has used up
\* the quota of another path
C4_Witness ==
  /\ last.op = "check_rate_limit"
  /\ last.first = "/health"
  /\ last.result
  /\ max_requests >= 1
  /\ KeyOf("/api", last.second) \in DOMAIN failed_attempts
  /\ entries[failed_attempts[KeyOf("/api", last.second)]].count >= max_requests
  /\ now - entries[failed_attempts[KeyOf("/api", last.second)]].timestamp < window

(***************************************************************************)
(* Properties of the concurrent rate limiter (SpecRLConc).                 *)
(***************************************************************************)
\* no caller is inside a call
AllReturned == \A x \in Threads : th[x].pc = "idle"

\* C2: under any interleaving, the calls of one series (one key, one window)
\* that return True are never more than max_requests, and are exactly
\* max_requests once at least max_requests calls were made and have returned.
C2_AtMostMaxAdmitted ==
  max_requests >= 1 =>
    \A k \in Keys :
      /\ hist[k].admitted <= max_requests
      /\ (AllReturned /\ hist[k].seen >= max_requests) =>
            hist[k].admitted = max_requests

\* C5: under any interleaving, no call of check_rate_limit ends in an error.
C5_NeverRaises == \A x \in Threads : th[x].pc # "raised"

(***************************************************************************)
(* Properties of the sequential SecretManager (SpecSM).                    *)
(***************************************************************************)
\* the records of the encrypt calls that returned the ciphertext c
IssuedAs(c) == { i \in issued : i.tok = c }

\* C6 as stated: for every plaintext x, encrypt(x) returns a ciphertext and
\* decrypt of it returns x when no key was created in between.
C6_RoundTripEveryPlaintext ==
  /\ last.op = "encrypt" => last.result.ok
  /\ last.op = "decrypt" =>
        \A i \in IssuedAs(last.input) :
          i.gen = keys_made => last.result = Ok(i.pt)

\* C6 amended: for every plaintext x that UTF-8 can encode, encrypt(x)
\* returns a ciphertext, and decrypt of a ciphertext that encrypt(x) returned
\* returns x when no key was created between the two calls.
C6_RoundTrip ==
  /\ (last.op = "encrypt" /\ Utf8Encode(last.data).ok) => last.result.ok
  /\ last.op = "decrypt" =>
        \A i \in IssuedAs(last.input) :
          i.gen = keys_made => last.result = Ok(i.pt)

\* C6 witness: a non-ASCII plaintext, encrypted by the call that created the
\* first key, is decrypted back
C6_Witness ==
  /\ last.op = "decrypt"
  /\ last.result = Ok(<<65, 233>>)
  /\ keys_made = 1
  /\ \E i \in IssuedAs(last.input) : i.gen = 1 /\ i.tok.time = i.kc

\* C7: decrypt returns x for every ciphertext encrypt(x) returned, also after
\* later key rotations.
C7_DecryptableAfterRotation ==
  last.op = "decrypt" =>
    \A i \in IssuedAs(last.input) : last.result = Ok(i.pt)

\* C9: after every encrypt call a key exists whose age at the call is at most
\* the rotation interval; every ciphertext was made under a key no older than
\* the rotation interval; once a key was made, a key is held.
C9_KeyFresh ==
  /\ last.op = "encrypt" =>
        /\ fernet # None
        /\ key_created # None
        /\ last.at - key_created <= rotation_interval
  /\ \A i \in issued :
        /\ i.kc # None
        /\ i.tok.time - i.kc <= rotation_interval
  /\ keys_made >= 1 => (fernet # None /\ key_created # None)

\* C9 witness: an encrypt call has replaced a key that was too old
C9_Witness ==
  /\ last.op = "encrypt"
  /\ last.rotated
  /\ last.result.ok
  /\ keys_made = 2

\* C10: decrypt returns the plaintext given to the encrypt call that made the
\* ciphertext, or fails; without a key it fails and creates no key; for a
\* ciphertext made under a key that is no longer held it fails.
C10_PlaintextOrError ==
  last.op = "decrypt" =>
    /\ last.result.ok =>
          \E i \in IssuedAs(last.input) : i.pt = last.result.val
    /\ ~last.hadKey =>
          (~last.result.ok /\ fernet = None /\ keys_made = 0)
    /\ \A i \in IssuedAs(last.input) :
          i.key # fernet => ~last.result.ok

\* C10 witness: decrypt fails for a ciphertext whose key was replaced
C10_Witness ==
  /\ last.op = "decrypt"
  /\ ~last.result.ok
  /\ \E i \in IssuedAs(last.input) : i.key # fernet

(***************************************************************************)
(* Properties of the concurrent SecretManager (SpecSMConc).                *)
(***************************************************************************)
\* no caller is inside encrypt
AllEncrypted == \A x \in Threads : enc[x].pc = "idle"

\* C8: rotation is atomic for concurrent encrypt calls: no call reads the key
\* state between the two writes of a rotation, the calls that find the key
\* absent or too old create one key between them (so two keys are created
\* more than one rotation interval apart), and once all calls have returned
\* every ciphertext made since the last rotation is under the current key.
C8_RotationAtomic ==
  /\ ~torn
  /\ keys_made <= 1 + (now \div (rotation_interval + 1))
  /\ AllEncrypted =>
        \A i \in issued : i.key = fernet \/ key_created > i.tok.time

(***************************************************************************)
(* Properties of key rotation (SpecSM).                                    *)
(***************************************************************************)
\* the last call was encrypt
LastEncrypt == last.op = "encrypt"

\* the age the key had when the last call began, or None without a key
LastKeyAge ==
  IF last.preCreated = None THEN None ELSE last.at - last.preCreated

\* the last call left another key in place than it found
LastReplacedKey == fernet # last.preKey \/ key_created # last.preCreated

\* C11: encrypt compares the key age against the interval the service was
\* configured with: a key is replaced exactly when there is none or its age
\* exceeds config.key_rotation.interval.
C11_ConfiguredInterval ==
  LastEncrypt =>
    (LastReplacedKey <=>
       (last.preKey = None \/ LastKeyAge > config.key_rotation.interval))

\* C19: encrypt replaces the key only when there is none or its age is
\* strictly greater than the rotation interval; at an age up to the interval
\* the key and its creation time stay as they were.
C19_RotatesOnlyWhenDue ==
  LastEncrypt =>
    /\ LastReplacedKey =>
         (last.preKey = None \/ LastKeyAge > rotation_interval)
    /\ (last.preKey # None /\ LastKeyAge <= rotation_interval) =>
         (fernet = last.preKey /\ key_created = last.preCreated)

\* an encrypt call found a key exactly one interval old and kept it
C19_Witness ==
  /\ LastEncrypt
  /\ last.preKey # None
  /\ LastKeyAge = rotation_interval
  /\ fernet = last.preKey
  /\ key_created = last.preCreated

\* C20: decrypt, succeeding or failing, however old the key, leaves the key
\* and its creation time as they were and generates no key.
C20_DecryptKeepsKey ==
  last.op = "decrypt" =>
    /\ fernet = last.preKey
    /\ key_created = last.preCreated
    /\ keys_made = last.preMade

\* a decrypt call found a key older than the interval and left it in place
C20_Witness ==
  /\ last.op = "decrypt"
  /\ last.preKey # None
  /\ LastKeyAge > rotation_interval
  /\ fernet = last.preKey
  /\ key_created = last.preCreated

(***************************************************************************)
(* Properties of validate_password (SpecPW).                               *)
(***************************************************************************)
\* the last call was validate_password
LastValidate == last.op = "validate_password"

\* The rules of a policy in the order length, digit, symbol, uppercase,
\* lowercase: whether the rule is configured, whether the password meets it,
\* and the message that reports it.
Rules(policy, password) ==
  LET has(S) == \E i \in 1 .. Len(password) : password[i] \in S
      digits == { c \in PwChars : IsDigit(c) }
      symbols == { c \in PwChars : ~IsAlnum(c) }
      uppers == { c \in PwChars : IsUpper(c) }
      lowers == { c \in PwChars : IsLower(c) }
  IN  << [set |-> TRUE, met |-> Len(password) >= policy.min_length,
          message |-> LengthMessage(policy.min_length)],
         [set |-> policy.require_numbers, met |-> has(digits),
          message |-> "Password must contain at least one number"],
         [set |-> policy.require_symbols, met |-> has(symbols),
          message |-> "Password must contain at least one symbol"],
         [set |-> policy.require_uppercase, met |-> has(uppers),
          message |-> "Password must contain at least one uppercase letter"],
         [set |-> policy.require_lowercase, met |-> has(lowers),
          message |-> "Password must contain at least one lowercase letter"] >>

\* the positions of the configured rules the last password violates
LastViolated ==
  LET rules == Rules(config.password_policy, last.password)
  IN  { i \in DOMAIN rules : rules[i].set /\ ~rules[i].met }

\* C12: validate_password succeeds exactly when the password meets every
\* configured rule; a rule whose flag is false never makes it fail.
C12_ValidIffEveryRule ==
  LastValidate => (last.result.valid <=> LastViolated = {})

\* a password without a symbol is accepted by a policy that asks for none,
\* while it asks for a length and a digit
C12_Witness ==
  /\ LastValidate
  /\ last.result.valid
  /\ ~config.password_policy.require_symbols
  /\ config.password_policy.require_numbers
  /\ config.password_policy.min_length > 0
  /\ \A i \in 1 .. Len(last.password) : IsAlnum(last.password[i])

\* C13: a failing validate_password reports the first violated rule in the
\* order length, digit, symbol, uppercase, lowercase; a password that is too
\* short is reported as too short whatever else is wrong with it.
C13_FirstViolatedReported ==
  (LastValidate /\ ~last.result.valid) =>
    /\ LastViolated # {}
    /\ \E i \in LastViolated :
         /\ \A j \in LastViolated : i <= j
         /\ last.result.message =
              Rules(config.password_policy, last.password)[i].message

\* a password that is too short and also violates the digit and the
\* uppercase rule is reported as too short
C13_Witness ==
  /\ LastValidate
  /\ {1, 2, 4} \subseteq LastViolated
  /\ last.password # <<>>
  /\ last.result.message = LengthMessage(config.password_policy.min_length)

(***************************************************************************)
(* Properties of constant_time_compare (SpecCompare).                      *)
(***************************************************************************)
\* the last call was constant_time_compare
LastCompare == last.op = "constant_time_compare"

\* UTF-8 can encode the string: it holds no lone surrogate
Encodable(s) == \A i \in 1 .. Len(s) : ~IsSurrogate(s[i])

\* C14 as stated: constant_time_compare never fails, and returns True exactly
\* when its two arguments are the same string, of equal or different lengths.
C14_TrueIffIdenticalEveryString ==
  LastCompare =>
    (last.result.ok /\ (last.result.val <=> last.val1 = last.val2))

\* C14 amended: for two strings UTF-8 can encode, constant_time_compare
\* returns, and returns True exactly when they are the same string; strings
\* of different lengths give False.
C14_TrueIffIdentical ==
  (LastCompare /\ Encodable(last.val1) /\ Encodable(last.val2)) =>
    (last.result.ok /\ (last.result.val <=> last.val1 = last.val2))

\* two encodable strings of different lengths, one a prefix of the other,
\* were compared and the result was False
C14_Witness ==
  /\ LastCompare
  /\ Encodable(last.val1) /\ Encodable(last.val2)
  /\ Len(last.val1) < Len(last.val2)
  /\ last.val1 = SubSeq(last.val2, 1, Len(last.val1))
  /\ last.val1 # <<>>
  /\ last.result.ok
  /\ ~last.result.val

\* C15: two runs of constant_time_compare that return take the same number
\* of comparison steps, wherever the first differing byte of their inputs is
\* and whether or not the lengths of their inputs differ.
C15_SameComparisonSteps ==
  (LastCompare /\ last.run = 2 /\ last.this.ok /\ last.prev.ok) =>
    last.this.steps = last.prev.steps

\* two runs returned: one compared strings of equal encoded length that
\* differ in their first byte, the other strings of different encoded
\* lengths that differ after their first byte
C15_Witness ==
  /\ LastCompare /\ last.run = 2
  /\ last.this.ok /\ last.prev.ok
  /\ last.prev.lenDiff = 0 /\ last.prev.diffAt = 1
  /\ last.this.lenDiff # 0 /\ last.this.diffAt > 1
  /\ last.this.steps = last.prev.steps

(***************************************************************************)
(* Further properties of the sequential rate limiter (SpecRL).             *)
(***************************************************************************)
\* the inner dict stored for key k
EntryOf(k) == entries[failed_attempts[k]]

\* C16: a denied call is not counted: the entry of the denied key has the
\* count and the window start it had before the call; and with
\* max_requests >= 1 every stored count is between 1 and max_requests.
C16_DeniedNotCounted ==
  /\ (LastCounted /\ ~last.result) =>
       /\ last.pre # NoEntry
       /\ LastKey \in DOMAIN failed_attempts
       /\ EntryOf(LastKey) = last.pre
  /\ max_requests >= 1 =>
       \A k \in DOMAIN failed_attempts :
         EntryOf(k).count >= 1 /\ EntryOf(k).count <= max_requests

\* a call was denied at a full count, after an earlier denial for its key
C16_Witness ==
  /\ LastCounted /\ ~last.result
  /\ last.wasDenied
  /\ max_requests > 1
  /\ EntryOf(LastKey).count = max_requests
  /\ EntryOf(LastKey).timestamp < last.at

\* the keys whose current series of calls began less than two windows
\* before time t
FirstSeenWithin(t) ==
  { k \in Keys : hist[k].seen >= 1 /\ t - hist[k].first < window + window }

\* C18: after a counted call every entry is younger than the window plus a
\* grace margin of one further window, so the map holds no more entries than
\* keys first seen within that span; and pruning removes no entry that is
\* still inside its window.
C18_BoundedMemory ==
  LastCounted =>
    /\ \A k \in DOMAIN failed_attempts :
         last.at - EntryOf(k).timestamp < window + window
    /\ Cardinality(DOMAIN failed_attempts)
         <= Cardinality(FirstSeenWithin(last.at))
    /\ ~last.lostLive

\* a call pruned the expired entry of another key and kept its own live one
C18_Witness ==
  /\ LastCounted
  /\ last.changed
  /\ last.pre # NoEntry
  /\ last.at - last.pre.timestamp = window - 1
  /\ DOMAIN failed_attempts = {LastKey}
  /\ \E k \in Keys \ {LastKey} :
       hist[k].seen >= 1 /\ last.at - hist[k].first >= window

(***************************************************************************)
(* Properties of the buckets (SpecRLColon).                                *)
(***************************************************************************)
\* the argument pair of the last call
LastPair == <<last.first, last.second>>

\* C17: buckets are per (ip, path) pair: the counter a call uses counts the
\* admitted calls of its own pair only, and with max_requests >= 1 the n-th
\* call of a pair inside one window is admitted exactly when
\* n <= max_requests, whatever calls were made for other pairs.
C17_BucketPerPair ==
  (LastCounted /\ max_requests >= 1) =>
    /\ last.result = (phist[LastPair].seen <= max_requests)
    /\ EntryOf(LastKey).count = phist[LastPair].admitted

(***************************************************************************)
(* The first call of a window (SpecRL).                                    *)
(***************************************************************************)
\* the last call found no live entry for its key: none, or an expired one
LastFoundNoLiveEntry == last.pre = NoEntry \/ last.expired

\* C21: a call that finds no live entry for its key is admitted and stores
\* the count 1 at the time of the call, whatever max_requests is; and with
\* max_requests = 0 a call is admitted exactly when it is the first of its
\* series, so that each window admits one call.
C21_FirstCallAdmitted ==
  LastCounted =>
    /\ LastFoundNoLiveEntry =>
         /\ last.result
         /\ LastKey \in DOMAIN failed_attempts
         /\ EntryOf(LastKey) = [count |-> 1, timestamp |-> last.at]
    /\ max_requests = 0 =>
         /\ last.result = (hist[LastKey].seen = 1)
         /\ last.result = LastFoundNoLiveEntry
         /\ hist[LastKey].admitted = 1

\* with max_requests below 1 a call was denied in one window and the next
\* call for the key, made once that window had expired, was admitted
C21_Witness ==
  /\ LastCounted
  /\ max_requests <= 0
  /\ last.expired
  /\ last.wasDenied
  /\ last.result
  /\ EntryOf(LastKey) = [count |-> 1, timestamp |-> last.at]

(***************************************************************************)
(* Properties of enrich_node (SpecAI).                                     *)
(***************************************************************************)
\* C22: every enrich_node call runs the OpenAI model first and the Anthropic
\* model only as the fallback of that same call, whatever earlier calls did;
\* a call ends in an error only when both of its runs failed.
C22_OpenAIFirst ==
  last.op = "enrich_node" =>
    /\ last.first = "openai"
    /\ last.second \in {"none", "anthropic"}
    /\ last.result.ok => last.result.val \in {last.first, last.second}
    /\ ~last.result.ok => last.second = "anthropic"

====
